---- MODULE Spec2Model ----
(***************************************************************************)
(* A model of app.py of MediPulseAI: the /predict handler (form parsing,   *)
(* label encoding, inference, labelling, history write) and the history    *)
(* helpers over the MongoDB collection "history".                          *)
(*                                                                         *)
(* Numbers.  A classifier output p in [0,1] is held as the integer         *)
(* p * PScale (four decimal places); a percentage is held in tenths of a   *)
(* percent, so 50.0 is 500 and 100.0 is 1000.  Form values are the raw     *)
(* strings of request.form; a field that the form does not carry has the   *)
(* value Absent.                                                           *)
(***************************************************************************)
EXTENDS Integers, Sequences, FiniteSets, TLC

VARIABLES
    history_col,   \* the documents of db["history"], in insertion order
    clock,         \* the wall clock datetime.utcnow() / now() reads, in milliseconds
    req,           \* per request slot: the /predict request being served
    listing,       \* what the last step answered, when it was a history route or call
    journal        \* the documents whose insert completed, since their user's last clear

vars == <<history_col, clock, req, listing, journal>>

----------------------------------------------------------------------------
(* Bounds of the model *)

MaxHist == 3      \* documents the collection holds at most
MaxClock == 2     \* milliseconds the wall clock advances at most
MaxLimit == 3     \* largest limit a get_history call is made with

----------------------------------------------------------------------------
(* Users, sessions *)

Anonymous == "<anonymous>"
Users == {"admin", "doctor"}
Callers == Users \cup {Anonymous}

is_authenticated(cu) == cu # Anonymous

----------------------------------------------------------------------------
(* request.form and the conversions of predict *)

Absent == "<absent>"

\* A variant: age is read before gender.
FieldOrderSwapped ==
    << "age", "gender", "hypertension", "heart_disease",
       "smoking_history", "bmi", "HbA1c_level", "blood_glucose_level" >>

FieldOrder ==
    << "gender", "age", "hypertension", "heart_disease",
       "smoking_history", "bmi", "HbA1c_level", "blood_glucose_level" >>

Fields == { FieldOrder[i] : i \in 1..Len(FieldOrder) }

FloatFields == {"age", "bmi", "HbA1c_level", "blood_glucose_level"}
IntFields == {"hypertension", "heart_disease"}

\* float(s) on the literals the model submits; any other string raises ValueError.
FloatTable ==
    ("45" :> 45) @@ ("-5" :> -5) @@ ("0" :> 0) @@ ("27" :> 27) @@
    ("6" :> 6) @@ ("140" :> 140) @@ ("1" :> 1) @@ ("7" :> 7)

\* int(s) on the literals the model submits; any other string raises ValueError.
IntTable == ("0" :> 0) @@ ("1" :> 1) @@ ("7" :> 7) @@ ("-5" :> -5)

to_float(s) ==
    IF s \in DOMAIN FloatTable
        THEN [ok |-> TRUE, v |-> FloatTable[s]]
        ELSE [ok |-> FALSE, v |-> 0]

to_int(s) ==
    IF s \in DOMAIN IntTable
        THEN [ok |-> TRUE, v |-> IntTable[s]]
        ELSE [ok |-> FALSE, v |-> 0]

\* The conversion predict applies to request.form[k].
Convert(k, s) ==
    IF k \in FloatFields THEN to_float(s)
    ELSE IF k \in IntFields THEN to_int(s)
    ELSE [ok |-> TRUE, v |-> s]

\* LabelEncoder.classes_ of le_gender.pkl and le_smoking.pkl, in sorted order.
le_gen == << "Female", "Male", "Other" >>
le_smoke == << "No Info", "current", "ever", "former", "never", "not current" >>

\* A variant: an unseen label is given the first class's code.
transform_default(classes, v) ==
    IF \E i \in 1..Len(classes) : classes[i] = v
        THEN [ok |-> TRUE, v |-> (CHOOSE i \in 1..Len(classes) : classes[i] = v) - 1]
        ELSE [ok |-> TRUE, v |-> 0]

\* LabelEncoder.transform([v])[0]: the index of v, or ValueError for an unseen label.
transform(classes, v) ==
    IF \E i \in 1..Len(classes) : classes[i] = v
        THEN [ok |-> TRUE, v |-> (CHOOSE i \in 1..Len(classes) : classes[i] = v) - 1]
        ELSE [ok |-> FALSE, v |-> 0]

----------------------------------------------------------------------------
(* Lines 171-178: the eight form reads, in source order *)

NoValues == [k \in Fields |-> 0]

\* request.form[k] raises KeyError(k) when k is absent; float()/int() raise
\* ValueError (whose text quotes the raw string).  The first raise ends the reads.
RECURSIVE ReadFields(_, _, _)
ReadFields(form, i, vals) ==
    IF i > Len(FieldOrder)
        THEN [kind |-> "ok", detail |-> "", vals |-> vals]
        ELSE LET k == FieldOrder[i] IN
             IF form[k] = Absent
                 THEN [kind |-> "missing_field", detail |-> k, vals |-> vals]
                 ELSE LET c == Convert(k, form[k]) IN
                      IF ~c.ok
                          THEN [kind |-> "invalid_value", detail |-> form[k],
                                vals |-> vals]
                          ELSE ReadFields(form, i + 1, [vals EXCEPT ![k] = c.v])

\* Lines 183-184: the row handed to scaler.transform and model.predict.
raw_row(v, gender_enc, smoking_enc) ==
    << gender_enc, v["age"], v["hypertension"], v["heart_disease"],
       smoking_enc, v["bmi"], v["HbA1c_level"], v["blood_glucose_level"] >>

----------------------------------------------------------------------------
(* Lines 186-191: inference and labelling *)

PScale == 100 * 100      \* a probability p is held as p * PScale
Probabilities == 0..PScale

\* model.predict raising instead of returning a probability
Fault == -1

\* Python's round(): to the nearest, a tie to the even neighbour.
RoundHalfEven(n, d) ==
    LET q == n \div d
        r == n % d
    IN  IF 2 * r < d THEN q
        ELSE IF 2 * r > d THEN q + 1
        ELSE IF q % 2 = 0 THEN q ELSE q + 1

\* round(float(prediction[0][0]) * 100, 1), in tenths of a percent
round_pct(p) == RoundHalfEven(p * 100 * 10, PScale)

Threshold == 500         \* "probability >= 50", in tenths of a percent

HighRisk == "High Diabetes Risk Detected"
LowRisk == "Low Diabetes Risk"

\* A variant: the boundary excluded.
result_type_strict(probability) ==
    IF probability > Threshold THEN "diabetic" ELSE "not_diabetic"

result_type_of(probability) ==
    IF probability >= Threshold THEN "diabetic" ELSE "not_diabetic"

result_of(probability) ==
    IF probability >= Threshold THEN HighRisk ELSE LowRisk

----------------------------------------------------------------------------
(* Lines 170-191 and the except clauses: predict up to the history write *)

NoRow == << >>

Failure(kind, detail, row, called) ==
    [kind |-> kind, detail |-> detail, vals |-> NoValues, raw |-> row,
     called |-> called, p |-> 0, probability |-> 0, result_type |-> "error",
     result |-> ""]

\* oracle is what model.predict does with the scaled row: a probability, or Fault.
Compute(form, oracle) ==
    LET rd == ReadFields(form, 1, NoValues) IN
    IF rd.kind # "ok" THEN Failure(rd.kind, rd.detail, NoRow, FALSE)
    ELSE
    LET g == transform(le_gen, rd.vals["gender"]) IN
    IF ~g.ok THEN Failure("invalid_value", rd.vals["gender"], NoRow, FALSE)
    ELSE
    LET s == transform(le_smoke, rd.vals["smoking_history"]) IN
    IF ~s.ok THEN Failure("invalid_value", rd.vals["smoking_history"], NoRow, FALSE)
    ELSE
    LET row == raw_row(rd.vals, g.v, s.v) IN
    IF oracle = Fault THEN Failure("unexpected_error", "", row, TRUE)
    ELSE
    LET probability == round_pct(oracle) IN
        [kind |-> "ok", detail |-> "", vals |-> rd.vals, raw |-> row,
         called |-> TRUE, p |-> oracle, probability |-> probability,
         result_type |-> result_type_of(probability),
         result |-> result_of(probability)]

\* What render_template is given: lines 212-215, 218-220, 222-224, 226-228.
Response(out) ==
    [kind |-> out.kind, detail |-> out.detail, prediction_text |-> out.result,
     result_type |-> out.result_type, probability |-> out.probability]

UnexpectedError ==
    [kind |-> "unexpected_error", detail |-> "", prediction_text |-> "",
     result_type |-> "error", probability |-> 0]

NoResponse ==
    [kind |-> "none", detail |-> "", prediction_text |-> "",
     result_type |-> "", probability |-> 0]

----------------------------------------------------------------------------
(* Lines 76-95: the history helpers over the collection *)

\* datetime.now().strftime("%d %b %Y, %I:%M %p") of the instant t, counted in
\* milliseconds (what a stored datetime keeps) from 01 Jan 2026 00:00: the text's
\* parts, in the order the text has them.
strftime(t) ==
    LET h == (t \div 3600000) % 24 IN
    << 1 + (t \div 86400000), "Jan", 2026, IF h % 12 = 0 THEN 12 ELSE h % 12,
       (t \div 60000) % 60, IF h < 12 THEN "AM" ELSE "PM" >>

\* Lines 197-206: the display copy of the inputs.
inputs_of(vals) ==
    ("Gender" :> vals["gender"]) @@
    ("Age" :> vals["age"]) @@
    ("Hypertension" :> (IF vals["hypertension"] # 0 THEN "Yes" ELSE "No")) @@
    ("Heart Disease" :> (IF vals["heart_disease"] # 0 THEN "Yes" ELSE "No")) @@
    ("Smoking History" :> vals["smoking_history"]) @@
    ("BMI" :> vals["bmi"]) @@
    ("HbA1c Level" :> vals["HbA1c_level"]) @@
    ("Blood Glucose" :> vals["blood_glucose_level"])

\* Lines 77-85: the document add_to_history builds.
history_doc(username, inputs, result, result_type, probability, now) ==
    [username |-> username, timestamp |-> strftime(now), inputs |-> inputs,
     result |-> result, result_type |-> result_type,
     probability |-> probability, created_at |-> now]

\* A variant: the write replaces the user's document (an upsert keyed by username).
insert_one_upsert(col, doc) ==
    Append(SelectSeq(col, LAMBDA d : d.username # doc.username), doc)

\* history_col.insert_one(doc)
insert_one(col, doc) == Append(col, doc)

\* history_col.delete_many({"username": username})
delete_many(col, username) == SelectSeq(col, LAMBDA d : d.username # username)

\* history_col.find({"username": username}): the matching documents' positions
find(col, username) == { i \in 1..Len(col) : col[i].username = username }

\* Whether the display text s sorts after or with the text t: day, hour, minute,
\* AM/PM (month and year are the same in every text here).
TextNotBefore(s, t) ==
    LET pm(x) == IF x[6] = "PM" THEN 1 ELSE 0 IN
    \/ s[1] > t[1]
    \/ s[1] = t[1] /\ s[4] > t[4]
    \/ s[1] = t[1] /\ s[4] = t[4] /\ s[5] > t[5]
    \/ s[1] = t[1] /\ s[4] = t[4] /\ s[5] = t[5] /\ pm(s) >= pm(t)

\* A variant: the sort is on the display timestamp.
sort_by_timestamp(a, b) == TextNotBefore(a.timestamp, b.timestamp)

\* .sort("created_at", DESCENDING): whether a may come before b
sort_descending(a, b) == a.created_at >= b.created_at

\* The orders a sort may return, as sequences of positions: a document that may
\* come before every other comes first, then an order of the rest; documents with
\* equal keys come in any order.
RECURSIVE Orderings(_, _)
Orderings(col, S) ==
    IF S = {} THEN { << >> }
    ELSE UNION { { << i >> \o o : o \in Orderings(col, S \ {i}) } :
                   i \in { j \in S : \A k \in S : sort_descending(col[j], col[k]) } }

\* cursor.limit(n): the first n documents; a limit of 0 is no limit.
limit_of(docs, n) ==
    IF n = 0 \/ n >= Len(docs) THEN docs ELSE SubSeq(docs, 1, n)

\* Lines 87-92: every list get_history(username, limit) may return.
get_history(col, username, limit) ==
    { limit_of([i \in 1..Cardinality(find(col, username)) |-> col[o[i]]], limit) :
        o \in Orderings(col, find(col, username)) }

\* A variant: the filter is left out and every user's documents go.
clear_everything(col, username) == << >>

\* Lines 94-95
clear_user_history(col, username) == delete_many(col, username)

DefaultLimit == 50

----------------------------------------------------------------------------
(* The inputs the model submits *)

Requests == {"r1", "r2"}

NoForm == [k \in Fields |-> Absent]

\* The example of the specification, section 8, in whole numbers.
ValidForm ==
    [k \in Fields |->
        CASE k = "gender" -> "Female"
          [] k = "age" -> "45"
          [] k = "hypertension" -> "0"
          [] k = "heart_disease" -> "0"
          [] k = "smoking_history" -> "never"
          [] k = "bmi" -> "27"
          [] k = "HbA1c_level" -> "6"
          [] k = "blood_glucose_level" -> "140"]

\* Per field: absent, well-formed, unparseable or out of vocabulary, out of domain.
FieldValues(k) ==
    CASE k = "gender" -> {Absent, "Female", "female"}
      [] k = "age" -> {Absent, "45", "-5", "abc"}
      [] k = "hypertension" -> {Absent, "0", "1", "7", "x"}
      [] k = "heart_disease" -> {Absent, "0", "x"}
      [] k = "smoking_history" -> {Absent, "never", "maybe"}
      [] k = "bmi" -> {Absent, "27", "abc"}
      [] k = "HbA1c_level" -> {Absent, "6", "abc"}
      [] k = "blood_glucose_level" -> {Absent, "140", "0", "abc"}

AllForms ==
    { [k \in Fields |->
          CASE k = "gender" -> g
            [] k = "age" -> a
            [] k = "hypertension" -> h
            [] k = "heart_disease" -> d
            [] k = "smoking_history" -> s
            [] k = "bmi" -> b
            [] k = "HbA1c_level" -> c
            [] k = "blood_glucose_level" -> l] :
        g \in FieldValues("gender"), a \in FieldValues("age"),
        h \in FieldValues("hypertension"), d \in FieldValues("heart_disease"),
        s \in FieldValues("smoking_history"), b \in FieldValues("bmi"),
        c \in FieldValues("HbA1c_level"), l \in FieldValues("blood_glucose_level") }

SmallForms == { ValidForm, [ValidForm EXCEPT !["age"] = Absent] }

Oracles == {Fault, 0, 4949, 4950, 4985, 4994, 4995, 5000, 7200, 9996, PScale}
SmallOracles == {Fault, 7200}

----------------------------------------------------------------------------
(* State *)

IdleRequest ==
    [pc |-> "idle", cu |-> Anonymous, form |-> NoForm,
     out |-> Failure("none", "", NoRow, FALSE), resp |-> NoResponse]

NoListing ==
    [route |-> "none", caller |-> Anonymous, username |-> Anonymous,
     limit |-> 0, records |-> << >>, deleted |-> 0]

Init ==
    /\ history_col = << >>
    /\ clock = 0
    /\ req = [r \in Requests |-> IdleRequest]
    /\ listing = NoListing
    /\ journal = << >>

\* The wall clock: between two steps it has advanced by a millisecond or it has
\* not, so that two reads, of concurrent requests or of one shortly after the
\* other, may return the same instant.
Tick ==
    /\ clock < MaxClock
    /\ clock' = clock + 1
    /\ listing' = NoListing
    /\ UNCHANGED <<history_col, req, journal>>

----------------------------------------------------------------------------
(* POST /predict, lines 168-228 *)

\* A variant: the write does not ask who is signed in.
saves_anyone(out, cu) == out.kind = "ok"

\* A variant: the write is made whatever the outcome (as from a finally clause).
saves_always(out, cu) == is_authenticated(cu)

\* Line 194 is reached when nothing raised before it; it asks for a signed-in user.
saves(out, cu) == out.kind = "ok" /\ is_authenticated(cu)

\* Lines 170-194: everything up to the history write.
Predict(r, form, cu, oracle) ==
    /\ req[r].pc = "idle"
    /\ LET out == Compute(form, oracle) IN
       req' = [req EXCEPT ![r] =
                 [pc |-> IF saves(out, cu) THEN "save" ELSE "done",
                  cu |-> cu, form |-> form, out |-> out,
                  resp |-> IF saves(out, cu) THEN NoResponse ELSE Response(out)]]
    /\ listing' = NoListing
    /\ UNCHANGED <<history_col, clock, journal>>

\* Lines 195-215: add_to_history returns, and the result is rendered.
SaveOk(r) ==
    /\ req[r].pc = "save"
    /\ Len(history_col) < MaxHist
    /\ LET out == req[r].out
           doc == history_doc(req[r].cu, inputs_of(out.vals), out.result,
                              out.result_type, out.probability, clock)
       IN  /\ history_col' = insert_one(history_col, doc)
           /\ journal' = Append(journal, doc)
           /\ req' = [req EXCEPT ![r].pc = "done", ![r].resp = Response(out)]
    /\ listing' = NoListing
    /\ UNCHANGED clock

\* Lines 195-210 and 225-228: insert_one raises (a pymongo error is an Exception).
SaveFails(r) ==
    /\ req[r].pc = "save"
    /\ req' = [req EXCEPT ![r].pc = "done", ![r].resp = UnexpectedError]
    /\ listing' = NoListing
    /\ UNCHANGED <<history_col, clock, journal>>

\* The response has left; the worker takes the next request.
Return(r) ==
    /\ req[r].pc = "done"
    /\ req' = [req EXCEPT ![r] = IdleRequest]
    /\ listing' = NoListing
    /\ UNCHANGED <<history_col, clock, journal>>

----------------------------------------------------------------------------
(* The history routes, lines 151-161, and direct calls of get_history *)

Redirect(cu) ==
    [route |-> "login", caller |-> cu, username |-> Anonymous,
     limit |-> 0, records |-> << >>, deleted |-> 0]

\* GET /history behind @login_required
History(cu) ==
    /\ IF is_authenticated(cu)
          THEN \E recs \in get_history(history_col, cu, DefaultLimit) :
                  listing' = [route |-> "history", caller |-> cu, username |-> cu,
                              limit |-> DefaultLimit, records |-> recs,
                              deleted |-> 0]
          ELSE listing' = Redirect(cu)
    /\ UNCHANGED <<history_col, clock, req, journal>>

\* POST /history/clear behind @login_required
ClearHistory(cu) ==
    /\ IF is_authenticated(cu)
          THEN /\ history_col' = clear_user_history(history_col, cu)
               /\ journal' = delete_many(journal, cu)
               /\ listing' = [route |-> "clear", caller |-> cu, username |-> cu,
                              limit |-> 0, records |-> << >>,
                              deleted |-> Cardinality(find(history_col, cu))]
          ELSE /\ listing' = Redirect(cu)
               /\ UNCHANGED <<history_col, journal>>
    /\ UNCHANGED <<clock, req>>

\* get_history(username, limit) called with any limit
GetHistoryCall(username, limit) ==
    /\ \E recs \in get_history(history_col, username, limit) :
          listing' = [route |-> "get_history", caller |-> username,
                      username |-> username, limit |-> limit, records |-> recs,
                      deleted |-> 0]
    /\ UNCHANGED <<history_col, clock, req, journal>>

----------------------------------------------------------------------------
(* Specifications *)

\* The whole program: concurrent requests, the clock and the history routes.  The
\* three specifications after it restrict its inputs and actions, so that each of
\* their behaviours is one of Spec.
Next ==
    \/ \E r \in Requests, form \in AllForms, cu \in Callers, oracle \in Oracles :
          Predict(r, form, cu, oracle)
    \/ \E r \in Requests : SaveOk(r)
    \/ \E r \in Requests : SaveFails(r)
    \/ \E r \in Requests : Return(r)
    \/ Tick
    \/ \E cu \in Callers : History(cu)
    \/ \E cu \in Callers : ClearHistory(cu)
    \/ \E u \in Users, limit \in 0..MaxLimit : GetHistoryCall(u, limit)

Spec == Init /\ [][Next]_vars

\* Concurrent /predict requests and clears, the clock standing still.
NextRequests ==
    \/ \E r \in Requests, form \in SmallForms, cu \in Callers, oracle \in SmallOracles :
          Predict(r, form, cu, oracle)
    \/ \E r \in Requests : SaveOk(r)
    \/ \E r \in Requests : SaveFails(r)
    \/ \E r \in Requests : Return(r)
    \/ \E cu \in Callers : ClearHistory(cu)

SpecRequests == Init /\ [][NextRequests]_vars

\* The history of signed-in users' well-formed requests, served one at a time,
\* under a running clock, read and cleared through the routes and the helper.
NextHistory ==
    \/ \E cu \in Users : Predict("r1", ValidForm, cu, 7200)
    \/ SaveOk("r1")
    \/ SaveFails("r1")
    \/ Return("r1")
    \/ Tick
    \/ \E cu \in Callers : History(cu)
    \/ \E cu \in Callers : ClearHistory(cu)
    \/ \E u \in Users, limit \in 0..MaxLimit : GetHistoryCall(u, limit)

SpecHistory == Init /\ [][NextHistory]_vars

\* One request at a time over every form, while the collection is empty.
NextPipeline ==
    \/ /\ history_col = << >>
       /\ req["r1"].pc = "idle"
       /\ \E form \in AllForms, cu \in Callers, oracle \in Oracles :
             Predict("r1", form, cu, oracle)
    \/ SaveOk("r1")
    \/ SaveFails("r1")
    \/ Return("r1")

SpecPipeline == Init /\ [][NextPipeline]_vars

----------------------------------------------------------------------------
(* Properties of the /predict pipeline, checked under SpecPipeline *)

ErrorKinds == {"missing_field", "invalid_value", "unexpected_error"}

\* The request of slot r has been answered in this step.
Answered(r) == req[r].pc # "done" /\ req'[r].pc = "done"

\* C1: for every classifier probability p in [0,1] the percentage is p*100 rounded
\* to the nearest tenth, lies in [0.0, 100.0], the label is diabetic iff the
\* percentage is >= 50.0 (50.0 itself is diabetic), and the message is the fixed
\* string of that label; the response carries the same three values.
C1_LabelFollowsPercentage ==
    \A r \in Requests :
        req[r].out.kind = "ok" =>
            LET o == req[r].out
                d == o.probability * PScale - o.p * 1000
            IN  /\ o.p \in Probabilities
                /\ 2 * d <= PScale /\ 2 * d >= -PScale
                /\ o.probability >= 0 /\ o.probability <= 1000
                /\ o.result_type \in {"diabetic", "not_diabetic"}
                /\ (o.result_type = "diabetic") <=> (o.probability >= 500)
                /\ o.result = (IF o.result_type = "diabetic" THEN HighRisk ELSE LowRisk)
                /\ req[r].resp.kind = "ok" =>
                      /\ req[r].resp.probability = o.probability
                      /\ req[r].resp.result_type = o.result_type
                      /\ req[r].resp.prediction_text = o.result

\* C1 witness: a probability of 0.4995 and one of 0.5 both answer 50.0, diabetic.
C1_BoundaryReached ==
    \E r \in Requests :
        /\ req[r].pc = "done" /\ req[r].resp.kind = "ok"
        /\ req[r].out.p = 4995
        /\ req[r].resp.probability = 500
        /\ req[r].resp.result_type = "diabetic"
        /\ req[r].resp.prediction_text = HighRisk

\* C2: a /predict request answered with a result appends exactly one document when
\* the caller is signed in, under the caller's username and carrying the message,
\* label and percentage of the response, and leaves the collection as it was when
\* the caller is not signed in; no other step of a request writes.
C2_SuccessWritesOnce ==
    [][\A r \in Requests :
          /\ (Answered(r) /\ req'[r].resp.kind = "ok" /\ is_authenticated(req'[r].cu)) =>
                /\ Len(history_col') = Len(history_col) + 1
                /\ SubSeq(history_col', 1, Len(history_col)) = history_col
                /\ LET d == history_col'[Len(history_col')] IN
                      /\ d.username = req'[r].cu
                      /\ d.result = req'[r].resp.prediction_text
                      /\ d.result_type = req'[r].resp.result_type
                      /\ d.probability = req'[r].resp.probability
          /\ (Answered(r) /\ req'[r].resp.kind = "ok" /\ ~is_authenticated(req'[r].cu)) =>
                history_col' = history_col
          /\ (req[r].pc = "idle" /\ req'[r].pc # "idle") => history_col' = history_col
      ]_vars

\* C2 witness: a signed-in caller's answered request, its document stored.
C2_SavedForCaller ==
    \E r \in Requests :
        /\ req[r].pc = "done" /\ req[r].resp.kind = "ok" /\ req[r].cu = "doctor"
        /\ Len(history_col) = 1
        /\ history_col[1].username = "doctor"
        /\ history_col[1].probability = req[r].resp.probability
        /\ history_col[1].result_type = "not_diabetic"

\* C3: a /predict request answered with missing_field, invalid_value or
\* unexpected_error has written nothing: neither the step that answers it nor the
\* step that started it changes the collection, whoever the caller is.
C3_FailureWritesNothing ==
    [][\A r \in Requests :
          /\ (Answered(r) /\ req'[r].resp.kind \in ErrorKinds) =>
                history_col' = history_col
          /\ (req[r].pc = "idle" /\ req'[r].pc # "idle") => history_col' = history_col
          /\ req'[r].pc = "done" => req'[r].resp.kind \in ErrorKinds \cup {"ok"}
      ]_vars

\* C3 witness: a signed-in caller's request failed at the store, nothing stored.
C3_FailedAndEmpty ==
    \E r \in Requests :
        /\ req[r].pc = "done" /\ req[r].resp.kind = "unexpected_error"
        /\ is_authenticated(req[r].cu) /\ req[r].out.kind = "ok"
        /\ history_col = << >>

\* C4 (the claim as stated): once validation, encoding, scaling and inference have
\* succeeded, the request is answered with the prediction result, also when the
\* history write fails.
C4_StoreFailureStillAnswers ==
    \A r \in Requests :
        (req[r].pc = "done" /\ req[r].out.kind = "ok") =>
            /\ req[r].resp.kind = "ok"
            /\ req[r].resp.probability = req[r].out.probability
            /\ req[r].resp.result_type = req[r].out.result_type
            /\ req[r].resp.prediction_text = req[r].out.result

\* The check order the claims name, and the first absent field of a form in it.
CanonicalOrder ==
    << "gender", "age", "hypertension", "heart_disease",
       "smoking_history", "bmi", "HbA1c_level", "blood_glucose_level" >>

SomeAbsent(form) == \E i \in 1..Len(CanonicalOrder) : form[CanonicalOrder[i]] = Absent

FirstAbsentIndex(form) ==
    CHOOSE i \in 1..Len(CanonicalOrder) :
        /\ form[CanonicalOrder[i]] = Absent
        /\ \A j \in 1..(i - 1) : form[CanonicalOrder[j]] # Absent

\* The present value of field k is one float() or int() accepts (a category
\* string is read as it is).
Parses(form, k) == Convert(k, form[k]).ok

AnsweredOrSaving(r) == req[r].pc \in {"save", "done"}

InVocabulary(classes, v) == \E i \in 1..Len(classes) : classes[i] = v

\* C8: a request with all eight fields present and every numeric parseable whose
\* gender or smoking_history is not in the encoder's vocabulary is answered
\* invalid_value; the classifier is not invoked, no row with a substituted code is
\* built, and nothing is handed to the history write.
C8_UnknownCategoryRejected ==
    \A r \in Requests :
        (/\ AnsweredOrSaving(r)
         /\ ~SomeAbsent(req[r].form)
         /\ \A k \in Fields : Parses(req[r].form, k)
         /\ \/ ~InVocabulary(le_gen, req[r].form["gender"])
            \/ ~InVocabulary(le_smoke, req[r].form["smoking_history"])) =>
            /\ req[r].pc = "done"
            /\ req[r].resp.kind = "invalid_value"
            /\ req[r].resp.detail \in
                  {req[r].form["gender"], req[r].form["smoking_history"]}
            /\ ~req[r].out.called
            /\ req[r].out.raw = NoRow

\* C8 witness: smoking_history = "maybe" answered invalid_value for a signed-in
\* caller.
C8_MaybeRejected ==
    \E r \in Requests :
        /\ req[r].pc = "done"
        /\ req[r].form = [ValidForm EXCEPT !["smoking_history"] = "maybe"]
        /\ req[r].cu = "admin"
        /\ req[r].resp.kind = "invalid_value"
        /\ req[r].resp.detail = "maybe"

\* C10 (the claim as stated): every row that reaches the classifier has age, bmi,
\* HbA1c and glucose > 0 and hypertension and heart_disease in {0, 1}; a request
\* with a present value outside these domains is answered invalid_value.
C10_OnlyWellFormedRowsReachClassifier ==
    \A r \in Requests :
        req[r].out.called =>
            /\ req[r].out.raw[2] > 0
            /\ req[r].out.raw[3] \in {0, 1}
            /\ req[r].out.raw[4] \in {0, 1}
            /\ req[r].out.raw[6] > 0
            /\ req[r].out.raw[7] > 0
            /\ req[r].out.raw[8] > 0

----------------------------------------------------------------------------
(* Properties of the history store, checked under SpecHistory and SpecRequests *)

docs_of(col, u) == SelectSeq(col, LAMBDA d : d.username = u)

Count(seq, d) == Cardinality({ i \in 1..Len(seq) : seq[i] = d })

Min(a, b) == IF a <= b THEN a ELSE b

\* res holds only documents of docs, none more often than docs does, and every
\* document of docs newer than the oldest of res.
NewestOf(res, docs) ==
    /\ \A i \in 1..Len(res) : \E j \in 1..Len(docs) : docs[j] = res[i]
    /\ \A j \in 1..Len(docs) :
          /\ Count(res, docs[j]) <= Count(docs, docs[j])
          /\ (\E i \in 1..Len(res) : docs[j].created_at > res[i].created_at) =>
                Count(res, docs[j]) = Count(docs, docs[j])
    /\ (Len(res) < Len(docs)) =>
          \A j \in 1..Len(docs) :
              Count(res, docs[j]) < Count(docs, docs[j]) =>
                  \A i \in 1..Len(res) : docs[j].created_at <= res[i].created_at

\* C6 (the claim as stated, for a limit of at least 1): get_history(username,
\* limit) returns exactly the min(limit, n) documents of the user with the
\* greatest creation instants, strictly newest first, and the empty list when the
\* user has none.
C6_StrictlyNewestFirst ==
    \A u \in Users, limit \in 1..MaxLimit :
        \A res \in get_history(history_col, u, limit) :
            LET docs == docs_of(history_col, u) IN
            /\ Len(res) = Min(limit, Len(docs))
            /\ NewestOf(res, docs)
            /\ \A i \in 1..(Len(res) - 1) : res[i].created_at > res[i + 1].created_at
            /\ Len(docs) = 0 => res = << >>

\* C6 (amended): for a limit of at least 1, get_history(username, limit) returns
\* min(limit, n) documents of the user, none left out being newer than one
\* returned, ordered newest first by created_at with documents of equal created_at
\* in any order; a limit of 0 returns all n; the list is empty when the user has
\* none.  What a call or the /history route returned is such a list.
C6_NewestFirstUpToTies ==
    /\ \A u \in Users, limit \in 0..MaxLimit :
          \A res \in get_history(history_col, u, limit) :
              LET docs == docs_of(history_col, u) IN
              /\ Len(res) = IF limit = 0 THEN Len(docs) ELSE Min(limit, Len(docs))
              /\ NewestOf(res, docs)
              /\ \A i \in 1..(Len(res) - 1) : res[i].created_at >= res[i + 1].created_at
              /\ Len(docs) = 0 => res = << >>
    /\ \A u \in Users : get_history(history_col, u, DefaultLimit) # {}
    /\ listing.route \in {"get_history", "history"} =>
          LET docs == docs_of(history_col, listing.username) IN
          /\ Len(listing.records) =
                IF listing.limit = 0 THEN Len(docs) ELSE Min(listing.limit, Len(docs))
          /\ NewestOf(listing.records, docs)
          /\ \A i \in 1..(Len(listing.records) - 1) :
                listing.records[i].created_at >= listing.records[i + 1].created_at

\* C6 witness: three documents created at instants 0 < 1 < 2, and a call with
\* limit 2 that returned those of 2 and 1, in that order.
C6_TwoNewestOfThree ==
    /\ listing.route = "get_history" /\ listing.limit = 2
    /\ Len(docs_of(history_col, listing.username)) = 3
    /\ \A i \in 1..3 : docs_of(history_col, listing.username)[i].created_at = i - 1
    /\ Len(listing.records) = 2
    /\ listing.records[1].created_at = 2
    /\ listing.records[2].created_at = 1

\* C7: a clear made by a signed-in caller deletes exactly that caller's documents:
\* get_history of the caller is then empty, every other user's documents are as
\* they were, and with nothing to delete the collection is unchanged.  The /history
\* route lists only the caller's own documents and writes nothing; a caller who is
\* not signed in is redirected and neither reads nor deletes anything.
C7_ClearOnlyOwnHistory ==
    [][
        /\ listing'.route = "clear" =>
              /\ is_authenticated(listing'.caller)
              /\ \A v \in Users :
                    docs_of(history_col', v) =
                        IF v = listing'.caller THEN << >> ELSE docs_of(history_col, v)
              /\ Len(history_col') =
                    Len(history_col) - Len(docs_of(history_col, listing'.caller))
              /\ \A limit \in 0..MaxLimit :
                    get_history(history_col', listing'.caller, limit) = {<< >>}
              /\ (docs_of(history_col, listing'.caller) = << >>) =>
                    (history_col' = history_col)
        /\ listing'.route = "history" =>
              /\ is_authenticated(listing'.caller)
              /\ \A i \in 1..Len(listing'.records) :
                    listing'.records[i].username = listing'.caller
              /\ history_col' = history_col
        /\ listing'.route = "login" =>
              /\ ~is_authenticated(listing'.caller)
              /\ listing'.records = << >>
              /\ history_col' = history_col
    ]_vars

\* C7 witness: admin has cleared two documents of their own and doctor's document
\* is still stored.
C7_ClearedBesideOther ==
    /\ listing.route = "clear" /\ listing.caller = "admin" /\ listing.deleted = 2
    /\ docs_of(history_col, "admin") = << >>
    /\ Len(docs_of(history_col, "doctor")) = 1

\* C9: under every interleaving of concurrent /predict requests, the documents a
\* user has in the collection are exactly the documents whose insert completed for
\* that user since the user's last clear (all of them when there was no clear),
\* each once and with the values it was written with, and no other document is
\* stored.
C9_NoAppendLost ==
    /\ \A u \in Users : docs_of(history_col, u) = docs_of(journal, u)
    /\ Len(history_col) = Len(journal)
    /\ \A i \in 1..Len(history_col) : history_col[i].username \in Users

\* C9 witness: two requests of the same user are answered side by side, both
\* documents stored.
C9_TwoRequestsOneUser ==
    /\ \A r \in Requests :
          req[r].pc = "done" /\ req[r].resp.kind = "ok" /\ req[r].cu = "admin"
    /\ Len(docs_of(history_col, "admin")) = 2
    /\ Len(docs_of(journal, "admin")) = 2

====
